---- MODULE Spec2Model ----
(***************************************************************************)
(* Model of the orchestration layer of the Automotas AI testing framework: *)
(* framework/base_test.py (BaseTest.log_result, get_test_summary),         *)
(* framework/test_runner.py (TestSuiteDiscovery, TestRunner),              *)
(* framework/reporting.py (TestReporter) and the command-line wrapper      *)
(* run_tests.py (main).                                                    *)
(*                                                                         *)
(* One process runs main(): it parses its arguments, calls run_tests once  *)
(* (or once per module in --module-sequence mode) and exits.  run_tests    *)
(* discovers the suite classes, filters them, drives every selected class  *)
(* with run_test_class (one task per class; concurrently under             *)
(* asyncio.gather in parallel mode, one after another in sequential mode), *)
(* merges the Suite Summaries, hands the Run Summary to the Reporter when  *)
(* reports are enabled, and returns it.                                    *)
(***************************************************************************)
EXTENDS Integers, Sequences, FiniteSets, TLC

(***************************************************************************)
(* Bounds of the model.                                                    *)
(***************************************************************************)
\* largest number of test_ methods a suite class declares
MaxMethods == 2

(***************************************************************************)
(* The test directory.  Two test files in the layout of src/tests: each    *)
(* defines one suite class and imports the framework base class APITest,   *)
(* so that dir(module) shows both.  Names are kept as strings; Chars gives *)
(* the characters of the names and filters the substring match reads.      *)
(***************************************************************************)
TestFiles == {"test_agents", "test_patterns"}

\* the order in which rglob("test_*.py") yields the files
file_order == <<"test_agents", "test_patterns">>

\* the BaseTest subclasses in dir(module), in dir()'s (sorted) order
ModuleClasses(f) ==
  IF f = "test_agents" THEN <<"APITest", "TestAgents">>
  ELSE <<"APITest", "TestPatterns">>

ClassNames == {"APITest", "TestAgents", "TestPatterns"}

\* APITest.__init__(self, test_name) has a required parameter, so test_class()
\* raises TypeError; the suites' own __init__(self) take none.
CtorRaises(cls) == cls = "APITest"

\* hasattr(test_instance, 'setup') and hasattr(test_instance, 'cleanup'):
\* both suites define both; BaseTest and APITest define neither
HasSetup(cls) == cls \in {"TestAgents", "TestPatterns"}

HasCleanup(cls) == cls \in {"TestAgents", "TestPatterns"}

MODULES_ORDER ==
  <<"dashboard", "agents", "workflows", "context", "analytics", "knowledge",
    "playbooks", "settings">>

NoFilter == "<None>"

\* values of --filter tried from the command line
CliFilters == {NoFilter, "N", "AGENTS", "API"}

Chars(s) ==
  CASE s = "APITest"      -> <<"A","P","I","T","e","s","t">>
    [] s = "TestAgents"   -> <<"T","e","s","t","A","g","e","n","t","s">>
    [] s = "TestPatterns" -> <<"T","e","s","t","P","a","t","t","e","r","n","s">>
    [] s = "API"          -> <<"A","P","I">>
    [] s = "N"            -> <<"N">>
    [] s = "AGENTS"       -> <<"A","G","E","N","T","S">>
    [] s = "dashboard"    -> <<"d","a","s","h","b","o","a","r","d">>
    [] s = "agents"       -> <<"a","g","e","n","t","s">>
    [] s = "workflows"    -> <<"w","o","r","k","f","l","o","w","s">>
    [] s = "context"      -> <<"c","o","n","t","e","x","t">>
    [] s = "analytics"    -> <<"a","n","a","l","y","t","i","c","s">>
    [] s = "knowledge"    -> <<"k","n","o","w","l","e","d","g","e">>
    [] s = "playbooks"    -> <<"p","l","a","y","b","o","o","k","s">>
    [] s = "settings"     -> <<"s","e","t","t","i","n","g","s">>
    [] s = "test_get_agent_types" ->
         <<"t","e","s","t","_","g","e","t","_","a","g","e","n","t","_",
           "t","y","p","e","s">>
    [] s = "test_create_agent" ->
         <<"t","e","s","t","_","c","r","e","a","t","e","_","a","g","e","n","t">>
    [] s = "test_get_agent_by_id" ->
         <<"t","e","s","t","_","g","e","t","_","a","g","e","n","t","_",
           "b","y","_","i","d">>
    [] s = "test_list_patterns" ->
         <<"t","e","s","t","_","l","i","s","t","_","p","a","t","t","e","r",
           "n","s">>
    [] s = "test_create_pattern" ->
         <<"t","e","s","t","_","c","r","e","a","t","e","_","p","a","t","t",
           "e","r","n">>
    [] s = "test_get_pattern" ->
         <<"t","e","s","t","_","g","e","t","_","p","a","t","t","e","r","n">>
    [] OTHER              -> <<>>

\* str.lower() on one character
LowerChar(c) ==
  CASE c = "A" -> "a" [] c = "E" -> "e" [] c = "G" -> "g" [] c = "I" -> "i"
    [] c = "N" -> "n" [] c = "P" -> "p" [] c = "S" -> "s" [] c = "T" -> "t"
    [] OTHER -> c

Lower(cs) == [i \in 1..Len(cs) |-> LowerChar(cs[i])]

\* Python's `a in b` on strings
IsSubstring(a, b) ==
  \E i \in 0..(Len(b) - Len(a)) : SubSeq(b, i + 1, i + Len(a)) = a

\* test_filter.lower() in tc.__name__.lower()
FilterMatches(test_filter, cls) ==
  IsSubstring(Lower(Chars(test_filter)), Lower(Chars(cls)))

\* test_level when --level is not given
NoLevel == "<None>"

\* values of --level tried from the command line (TestLevel values)
CliLevels == {NoLevel, "e2e"}

\* the level a suite instance declares: APITest.__init__ passes
\* TestLevel.INTEGRATION to BaseTest.__init__
DeclaredLevel(cls) == "integration"

\* run_tests' level step: `if test_level: pass`
ApplyLevel(classes, test_level) == classes

RECURSIVE SelectSeq2(_, _)
\* a list comprehension [x for x in s if x \in keep]
SelectSeq2(s, keep) ==
  IF s = <<>> THEN <<>>
  ELSE IF Head(s) \in keep THEN <<Head(s)>> \o SelectSeq2(Tail(s), keep)
  ELSE SelectSeq2(Tail(s), keep)

\* run_tests' filter step: `if test_filter:` is false for None
ApplyFilter(classes, test_filter) ==
  IF test_filter = NoFilter THEN classes
  ELSE SelectSeq2(classes, {c \in ClassNames : FilterMatches(test_filter, c)})


(***************************************************************************)
(* The Suite Contract: Result Records, log_result and get_test_summary.    *)
(***************************************************************************)
\* TestResult.error when log_result is called without an error
None == "<None>"

\* BaseTest.log_result: append one Result Record to self.results
log_result(results, test_name, status, error) ==
  Append(results, [test_name |-> test_name, status |-> status, error |-> error])

\* a count that tells only whether some record has the status
CountStatus_Present(results, status) ==
  IF \E i \in 1..Len(results) : results[i].status = status THEN 1 ELSE 0

\* sum(1 for r in self.results if r.status == status)
CountStatus(results, status) ==
  Cardinality({i \in 1..Len(results) : results[i].status = status})

\* BaseTest.get_test_summary (success_rate, a float derived from passed and
\* total, and the per-record duration and timestamp are left out)
get_test_summary(cls, results) ==
  [ test_suite  |-> cls,
    total_tests |-> Len(results),
    passed      |-> CountStatus(results, "passed"),
    failed      |-> CountStatus(results, "failed"),
    skipped     |-> CountStatus(results, "skipped"),
    results     |-> results ]

(***************************************************************************)
(* The test methods of a suite.  A suite with n test methods declares the  *)
(* first n of its class's methods; the Runner lists them with              *)
(* dir(test_instance), which returns the names sorted.  A Result Record's  *)
(* test_name k stands for the k-th name of that list.                      *)
(***************************************************************************)
\* the first test_ methods of the suite classes, in the order of their `def`s
DeclaredMethods(cls) ==
  CASE cls = "TestAgents" ->
         <<"test_get_agent_types", "test_create_agent", "test_get_agent_by_id">>
    [] cls = "TestPatterns" ->
         <<"test_list_patterns", "test_create_pattern", "test_get_pattern">>
    [] OTHER -> <<>>

\* the characters of method names by code point: "_" comes before the letters
Alphabet ==
  <<"_","a","b","c","d","e","f","g","h","i","j","k","l","m","n","o","p","q",
    "r","s","t","u","v","w","x","y","z">>

Ord(c) == CHOOSE i \in DOMAIN Alphabet : Alphabet[i] = c

RECURSIVE SeqLess(_, _)
\* Python's `<` on strings
SeqLess(x, y) ==
  IF x = <<>> THEN y /= <<>>
  ELSE IF y = <<>> THEN FALSE
  ELSE IF Head(x) = Head(y) THEN SeqLess(Tail(x), Tail(y))
  ELSE Ord(Head(x)) < Ord(Head(y))

StrLess(a, b) == SeqLess(Chars(a), Chars(b))

RECURSIVE SortedSeq(_)
\* dir(): the names sorted
SortedSeq(S) ==
  IF S = {} THEN <<>>
  ELSE LET m == CHOOSE x \in S : \A y \in S \ {x} : StrLess(x, y)
       IN <<m>> \o SortedSeq(S \ {m})

\* test_methods = [m for m in dir(test_instance) if m.startswith('test_') ...]
\* of a suite that declares n test methods
test_methods(cls, n) ==
  SortedSeq({DeclaredMethods(cls)[k] : k \in 1..n})

\* the position of a method's `def` in its class
DeclPos(cls, name) ==
  CHOOSE k \in DOMAIN DeclaredMethods(cls) : DeclaredMethods(cls)[k] = name

(***************************************************************************)
(* What a suite's own code does when the Runner calls it.  The outcome of  *)
(* setup, of a test method and of cleanup depends on the service under     *)
(* test, so each is a choice made when the call happens, unless the        *)
(* script of the class fixes it (a deterministic suite).                   *)
(***************************************************************************)
\* how a call of setup or cleanup ends
HookOutcomes == {"ok", "raise"}

\* a test method: returns; raises with a message; raises with an empty
\* str(e) (a bare assert); logs its own "passed" record and returns; logs its
\* own "skipped" record and returns (both as tests/test_patterns.py does)
Behaviours == {"pass", "raise", "raise_empty", "logpass", "logskip"}

MethodRaises(b) == b \in {"raise", "raise_empty"}

\* str(e) of the exception a raising method raises
ExcMessage(b) == IF b = "raise_empty" THEN "" ELSE "boom"

FreeScript ==
  [fixed |-> FALSE, setup |-> "ok", beh |-> <<>>, cleanup |-> "ok"]

\* scripts of deterministic suites
FixedScripts ==
  { [fixed |-> TRUE, setup |-> su, beh |-> b, cleanup |-> cl] :
      su \in HookOutcomes, b \in [1..MaxMethods -> {"pass", "raise"}],
      cl \in HookOutcomes }

VARIABLES
  broken,       \* test files whose import raises
  script,       \* per suite class: FreeScript or a fixed script
  prev,         \* outcome of the previous process (mode comparison only)
  args,         \* main: the parsed command line
  config,       \* test_config: parallel_tests, generate_reports
  environ,      \* os.environ: PARALLEL_TESTS, GENERATE_REPORTS, REPORT_FORMAT
  mpc,          \* main: where the process is
  module_idx,   \* main: position in MODULES_ORDER (--module-sequence)
  any_failed,   \* main: any_failed
  combined,     \* main: combined["modules"], module -> status of its summary
  exit_code,    \* process exit code, -1 while running
  exit_reason,  \* how main ended: none, returned, exception, interrupt
  test_classes, \* runner.discovery.test_classes
  selected,     \* run_tests: test_classes after the filter
  tasks,        \* run_tests: one drive (run_test_class call) per selected class
  gathered,     \* run_tests: `results` as returned by asyncio.gather
  all_results,  \* run_tests: all_results, class name -> Suite Summary
  test_summary, \* run_tests: the Run Summary returned (kind "none" before)
  reports,      \* number of generate_report calls so far
  clock,        \* time of the latest report, in ticks since the first one
  report_dir,   \* the reports directory: file name -> the call that wrote it
  report_log,   \* per generate_report call: its timestamp and its files
  last_report,  \* what the latest generate_report call wrote (JSON, JUnit)
  request       \* APITest.make_request: the call in progress

\* main, the Runner and the Reporter
runnerVars ==
  << broken, script, prev, args, config, environ, mpc, module_idx,
     any_failed, combined, exit_code, exit_reason, test_classes, selected,
     tasks,
     gathered, all_results, test_summary, reports, clock, report_dir,
     report_log, last_report >>

vars == << runnerVars, request >>

\* the Reporter, the clock it reads and the directory it writes to
reporterVars == << reports, clock, report_dir, report_log, last_report >>

envVars == << broken, script >>


SetupChoices(cls) ==
  IF ~HasSetup(cls) THEN {"ok"}
  ELSE IF script[cls].fixed THEN {script[cls].setup} ELSE HookOutcomes

NumMethodsChoices(cls) ==
  IF script[cls].fixed THEN {Len(script[cls].beh)} ELSE 0..MaxMethods

BehaviourChoices(cls, k) ==
  IF script[cls].fixed THEN {script[cls].beh[k]} ELSE Behaviours

CleanupChoices(cls) ==
  IF ~HasCleanup(cls) THEN {"ok"}
  ELSE IF script[cls].fixed THEN {script[cls].cleanup} ELSE HookOutcomes

(***************************************************************************)
(* Discovery.                                                              *)
(***************************************************************************)
RECURSIVE ImportAll(_)
\* discover_tests' loop: the classes of every file that imports, in file order;
\* a file whose import raises is skipped with a warning
ImportAll(files) ==
  IF files = <<>> THEN <<>>
  ELSE (IF Head(files) \in broken THEN <<>> ELSE ModuleClasses(Head(files)))
       \o ImportAll(Tail(files))

\* discover_tests: appends to self.test_classes and returns it
discover_tests(known) == known \o ImportAll(file_order)

(***************************************************************************)
(* run_test_class: one drive of one suite class.                           *)
(***************************************************************************)
NoSuiteSummary == get_test_summary("", <<>>)

\* an instance that starts with a record another instance logged
InitialResults_Shared(cls) ==
  <<[test_name |-> 1, status |-> "passed", error |-> None]>>

\* BaseTest.__init__: self.results = [], a new list for every instance
InitialResults(cls) == <<>>

NewTask(cls) ==
  [ cls      |-> cls,
    pc       |-> "new",      \* new, setup, loop, cleanup, done
    n        |-> 0,          \* len(test_methods)
    idx      |-> 1,          \* next method of the loop
    results  |-> InitialResults(cls),  \* test_instance.results
    invoked  |-> 0,          \* test methods called so far
    raised   |-> 0,          \* of which raised
    setup_raised |-> FALSE,  \* setup raised
    cleanups |-> 0,          \* calls of cleanup
    inflight |-> 0,          \* operations called and not yet returned
    outcome  |-> "none",     \* none, summary, exception
    summary  |-> NoSuiteSummary ]

\* the suite's own method body: what it logs itself before it returns or raises
MethodBody(results, k, b) ==
  CASE b = "logpass" -> log_result(results, k, "passed", None)
    [] b = "logskip" ->
         log_result(results, k, "skipped", "Could not create pattern")
    [] OTHER -> results

\* the Runner's try/except around one method call
InvokeMethod(results, k, b) ==
  IF MethodRaises(b)
  THEN log_result(MethodBody(results, k, b), k, "failed", ExcMessage(b))
  ELSE log_result(MethodBody(results, k, b), k, "passed", None)

\* the operations in flight after one operation has returned or raised (0
\* stays 0: the operation was called and returned within one step)
Returned(k) == IF k > 0 THEN k - 1 ELSE 0

\* a Runner that goes on into the method loop after setup raised
AfterSetup_NoAbort(outcome, n) == IF n = 0 THEN "cleanup" ELSE "loop"

\* where run_test_class goes after `await test_instance.setup()`: an exception
\* leaves the try block, past the method loop and past cleanup
AfterSetup(outcome, n) ==
  IF outcome = "raise" THEN "done"
  ELSE IF n = 0 THEN "cleanup" ELSE "loop"

\* where the method loop goes after one method, whether or not it raised
AfterMethod(idx, n, b) == IF idx < n THEN "loop" ELSE "cleanup"

\* a Runner that loses the suite's records when cleanup raises
AfterCleanup_Discard(results, outcome) ==
  IF outcome = "raise" THEN <<>> ELSE results

\* test_instance.results after `await test_instance.cleanup()`: an exception
\* is printed by the outer except and the records stay as they are
AfterCleanup(results, outcome) == results

\* the return of run_test_class
Finish(t) ==
  [t EXCEPT !.pc = "done", !.outcome = "summary",
            !.summary = get_test_summary(t.cls, t.results)]

(***************************************************************************)
(* run_tests and _generate_test_summary.                                   *)
(***************************************************************************)
RECURSIVE SumFun(_)
\* sum(...) over the values of a dict
SumFun(f) ==
  IF DOMAIN f = {} THEN 0
  ELSE LET x == CHOOSE y \in DOMAIN f : TRUE
       IN f[x] + SumFun([y \in DOMAIN f \ {x} |-> f[y]])

\* all_results[name] = result
Store(results_by_name, name, summary) ==
  [c \in DOMAIN results_by_name \cup {name} |->
     IF c = name THEN summary ELSE results_by_name[c]]

RECURSIVE Collect(_, _)
\* the loop over zip(test_classes, results) after gather: an exception is
\* printed, a summary is stored under the class name
Collect(outcomes, acc) ==
  IF outcomes = <<>> THEN acc
  ELSE LET o == Head(outcomes)
       IN Collect(Tail(outcomes),
                  IF o.outcome = "exception" THEN acc
                  ELSE Store(acc, o.cls, o.summary))

NoRunSummary ==
  [ kind |-> "none", total_suites |-> 0, total_tests |-> 0, passed |-> 0,
    failed |-> 0, skipped |-> 0, status |-> "none" ]

RunStatus(total_failed) == IF total_failed = 0 THEN "passed" ELSE "failed"

_generate_test_summary(results_by_name) ==
  LET total_failed == SumFun([c \in DOMAIN results_by_name |->
                                results_by_name[c].failed])
  IN [ kind         |-> "summary",
       total_suites |-> Cardinality(DOMAIN results_by_name),
       total_tests  |-> SumFun([c \in DOMAIN results_by_name |->
                                  results_by_name[c].total_tests]),
       passed       |-> SumFun([c \in DOMAIN results_by_name |->
                                  results_by_name[c].passed]),
       failed       |-> total_failed,
       skipped      |-> SumFun([c \in DOMAIN results_by_name |->
                                  results_by_name[c].skipped]),
       status       |-> RunStatus(total_failed) ]

\* `if self.config.parallel_tests and len(test_classes) > 1`
UseParallel == config.parallel_tests /\ Len(selected) > 1

\* a main that exits with 0 whatever the status
ExitCodeFor_AlwaysZero(summary) == 0

\* main's exit code after a single run
ExitCodeFor(summary) == IF summary.status = "failed" THEN 1 ELSE 0


(***************************************************************************)
(* The Reporter (framework/reporting.py).  The reports directory is a map  *)
(* from file names to the generate_report call that wrote the file last:   *)
(* open(name, 'w') replaces what a file of that name held.  File names are *)
(* built from a stem, the timestamp and an extension.  What the latest     *)
(* call wrote into its JSON and JUnit files is kept beside the directory.  *)
(* Numbers in the XML are the decimal digits the f-string writes.          *)
(***************************************************************************)
\* clock ticks per second: datetime.now() is finer than the "%S" of the
\* timestamp
TicksPerSecond == 2

\* time between two readings of the clock by generate_report: less than a
\* second, or a second
Elapsed == {1, TicksPerSecond}

\* datetime.now().strftime("%Y%m%d_%H%M%S"): the time cut to whole seconds
strftime(t) == t \div TicksPerSecond

\* values of REPORT_FORMAT
ReportFormats == {"html", "json"}

FileName(stem, timestamp, ext) ==
  [stem |-> stem, timestamp |-> timestamp, ext |-> ext]

json_file(timestamp) == FileName("test_report", timestamp, "json")
html_file(timestamp) == FileName("test_report", timestamp, "html")
xml_file(timestamp)  == FileName("junit_results", timestamp, "xml")

\* reports/<module>.json, which main writes itself in --module-sequence
\* mode: a name without timestamp, written by no generate_report call
NoTimestamp == -1

NoCall == 0

module_file(module) == FileName(module, NoTimestamp, "json")

\* with open(name, 'w') as f: f.write(data)
WriteFile(dir, name, data) ==
  [f \in DOMAIN dir \cup {name} |-> IF f = name THEN data ELSE dir[f]]

RECURSIVE Digits(_)
\* f"{n}" for a non-negative int
Digits(n) == IF n < 10 THEN <<n>> ELSE Append(Digits(n \div 10), n % 10)

\* a JUnit writer that takes every record with an error text for a failure
JUnitTestCase_ErrorMeansFailure(result) ==
  [ name  |-> result.test_name,
    child |-> IF result.error /= None THEN "failure"
              ELSE IF result.status = "skipped" THEN "skipped" ELSE "none" ]

\* one <testcase> element
JUnitTestCase(result) ==
  [ name  |-> result.test_name,
    child |-> IF result.status = "failed" THEN "failure"
              ELSE IF result.status = "skipped" THEN "skipped" ELSE "none" ]

\* a Runner-independent JUnit writer that derives failures from the passed
\* count
JUnitTestSuite_FailuresFromPassed(suite_data) ==
  [ tests     |-> Digits(suite_data.total_tests),
    failures  |-> Digits(suite_data.total_tests - suite_data.passed),
    skipped   |-> Digits(suite_data.skipped),
    testcases |-> [k \in DOMAIN suite_data.results |->
                     JUnitTestCase(suite_data.results[k])] ]

\* one <testsuite> element
JUnitTestSuite(suite_data) ==
  [ tests     |-> Digits(suite_data.total_tests),
    failures  |-> Digits(suite_data.failed),
    skipped   |-> Digits(suite_data.skipped),
    testcases |-> [k \in DOMAIN suite_data.results |->
                     JUnitTestCase(suite_data.results[k])] ]

\* the <testsuites> document (the time attributes are left out)
_create_junit_xml(summary, detailed_results) ==
  [ tests      |-> Digits(summary.total_tests),
    failures   |-> Digits(summary.failed),
    skipped    |-> Digits(summary.skipped),
    testsuites |-> [name \in DOMAIN detailed_results |->
                      JUnitTestSuite(detailed_results[name])] ]

\* report_data of the JSON report (metadata left out)
json_report_data(summary, detailed_results) ==
  [summary |-> summary, detailed_results |-> detailed_results]

_generate_json_report(dir, call, timestamp) ==
  WriteFile(dir, json_file(timestamp), call)

_generate_html_report(dir, call, timestamp) ==
  WriteFile(dir, html_file(timestamp), call)

_generate_junit_xml(dir, call, timestamp) ==
  WriteFile(dir, xml_file(timestamp), call)

\* a Reporter that writes the HTML report whatever the format
WantsHtml_Always(report_format) == TRUE

\* `if test_config.report_format == "html"`
WantsHtml(report_format) == report_format = "html"

\* generate_report, the call-th call, at time t: JSON, HTML when configured,
\* JUnit XML
generate_report(dir, call, t) ==
  LET timestamp == strftime(t)
      d1 == _generate_json_report(dir, call, timestamp)
      d2 == IF WantsHtml(config.report_format)
            THEN _generate_html_report(d1, call, timestamp)
            ELSE d1
  IN _generate_junit_xml(d2, call, timestamp)

\* the files of a directory that a call wrote last
WrittenBy(dir, call) == {f \in DOMAIN dir : dir[f] = call}

\* the contents of the JSON report and of the JUnit XML of one call
ReportData(call, summary, detailed_results) ==
  [ call  |-> call,
    json  |-> json_report_data(summary, detailed_results),
    junit |-> _create_junit_xml(summary, detailed_results) ]

NoReport == ReportData(NoCall, NoRunSummary, <<>>)

(***************************************************************************)
(* Initial state: the process has not started; the test directory is any   *)
(* of the layouts (which of the test files import).                        *)
(***************************************************************************)
NoArgs ==
  [filter |-> NoFilter, level |-> NoLevel, module_sequence |-> FALSE,
   fail_fast |-> FALSE, parallel |-> FALSE, reports |-> FALSE]

\* the environment variables the configuration is built from, as the
\* process finds them (after the .env files are loaded)
Environments ==
  [PARALLEL_TESTS : {"true", "false"}, GENERATE_REPORTS : {"true", "false"},
   REPORT_FORMAT : ReportFormats]

\* the defaults of os.getenv in from_env
DefaultEnviron ==
  [PARALLEL_TESTS |-> "true", GENERATE_REPORTS |-> "true",
   REPORT_FORMAT |-> "html"]

\* TestConfiguration.from_env, evaluated when framework.config is imported
from_env(env) ==
  [ parallel_tests   |-> env.PARALLEL_TESTS = "true",
    generate_reports |-> env.GENERATE_REPORTS = "true",
    report_format    |-> env.REPORT_FORMAT ]

\* main: `if args.parallel: os.environ["PARALLEL_TESTS"] = "true"` and the
\* same for --reports
ApplyOverrides(env, a) ==
  [env EXCEPT !.PARALLEL_TESTS = IF a.parallel THEN "true" ELSE @,
              !.GENERATE_REPORTS = IF a.reports THEN "true" ELSE @]

NoPrev == [kind |-> "none", parallel |-> FALSE, summary |-> NoRunSummary]

\* no make_request call has been made
NoResult == [kind |-> "none", exc |-> None, attempt |-> 0]

NoRequest ==
  [pc |-> "none", session |-> FALSE, retry_count |-> 0, attempt |-> 0,
   sent |-> 0, log |-> <<>>, result |-> NoResult]

InitProcess ==
  /\ prev = NoPrev
  /\ args = NoArgs
  /\ environ = DefaultEnviron
  /\ config = from_env(environ)
  /\ mpc = "start"
  /\ module_idx = 1
  /\ any_failed = FALSE
  /\ combined = <<>>
  /\ request = NoRequest
  /\ exit_code = -1
  /\ exit_reason = "none"
  /\ test_classes = <<>>
  /\ selected = <<>>
  /\ tasks = <<>>
  /\ gathered = <<>>
  /\ all_results = <<>>
  /\ test_summary = NoRunSummary
  /\ reports = 0
  /\ clock = 0
  /\ report_dir = <<>>
  /\ report_log = <<>>
  /\ last_report = NoReport

Init ==
  /\ broken \in SUBSET TestFiles
  /\ script = [c \in ClassNames |-> FreeScript]
  /\ InitProcess

(***************************************************************************)
(* main(), up to the first call of run_tests: test_config is built from    *)
(* the environment when the framework is imported, the arguments are       *)
(* parsed, the overrides are written to os.environ and the TestRunner is   *)
(* constructed.  --filter is read only in the single-run branch and        *)
(* --fail-fast only in the sequence branch; --level, --parallel and        *)
(* --reports are tried together with --filter AGENTS, and --level,         *)
(* GENERATE_REPORTS=false and a REPORT_FORMAT other than html are tried    *)
(* with PARALLEL_TESTS=false; --module-sequence is tried with              *)
(* test_patterns.py importable and, when it runs sequentially and writes   *)
(* reports, with REPORT_FORMAT=json.                                       *)
(***************************************************************************)
Main ==
  /\ mpc = "start"
  /\ \E f \in CliFilters, lv \in CliLevels, ms \in BOOLEAN, ff \in BOOLEAN,
        pa \in BOOLEAN, re \in BOOLEAN :
       /\ (pa \/ re) => (f = "AGENTS" /\ lv = NoLevel /\ ~ms)
       /\ ms => f = NoFilter
       /\ ~ms => ~ff
       /\ lv /= NoLevel => (f = "AGENTS" /\ ~ms)
       /\ args' = [filter |-> f, level |-> lv, module_sequence |-> ms,
                   fail_fast |-> ff, parallel |-> pa, reports |-> re]
  /\ \E env \in Environments :
       /\ config' = from_env(env)
       /\ environ' = ApplyOverrides(env, args')
  /\ config'.report_format /= "html" => config'.generate_reports
  /\ args'.module_sequence =>
       /\ (config'.generate_reports /\ ~config'.parallel_tests)
            => config'.report_format = "json"
       /\ "test_patterns" \notin broken
  /\ config'.parallel_tests =>
       /\ config'.generate_reports
       /\ config'.report_format = "html"
       /\ args'.level = NoLevel
  /\ test_classes' = <<>>
  /\ module_idx' = 1
  /\ any_failed' = FALSE
  /\ combined' = <<>>
  /\ request' = request
  /\ mpc' = "call"
  /\ UNCHANGED << envVars, prev, exit_code, exit_reason, selected, tasks,
                  gathered, all_results, test_summary, reporterVars >>

\* the test_filter of the run_tests call main is about to make
CurrentFilter ==
  IF args.module_sequence THEN MODULES_ORDER[module_idx] ELSE args.filter

(***************************************************************************)
(* run_tests, from its call to the start of the drives: discovery, filter. *)
(***************************************************************************)
RunTestsStart ==
  /\ mpc = "call"
  /\ test_classes' = discover_tests(test_classes)
  /\ selected' = ApplyLevel(ApplyFilter(test_classes', CurrentFilter),
                            args.level)
  /\ tasks' = [i \in 1..Len(selected') |-> NewTask(selected'[i])]
  /\ gathered' = <<>>
  /\ all_results' = <<>>
  /\ test_summary' = NoRunSummary
  /\ mpc' = "running"
  /\ UNCHANGED << envVars, prev, args, config, environ, module_idx,
                  any_failed, combined, request,
                  exit_code, exit_reason, reporterVars >>

\* a sequential loop that does not await the drive it started
SequentialTurn_NoAwait(i) == TRUE

\* `result = await self.run_test_class(test_class)` in the sequential loop:
\* drive i is reached when every earlier drive has returned
SequentialTurn(i) == \A j \in 1..(i - 1) : tasks[j].pc = "done"

\* drive i may take a step: any unfinished drive under gather; in sequential
\* mode only after every earlier drive has returned
CanStep(i) ==
  /\ mpc = "running"
  /\ i \in DOMAIN tasks
  /\ tasks[i].pc /= "done"
  /\ UseParallel \/ SequentialTurn(i)

\* `all_results[test_class.__name__] = result` of the sequential loop
StoreSequential(t) ==
  IF UseParallel THEN all_results ELSE Store(all_results, t.cls, t.summary)

runUnchanged ==
  << envVars, prev, args, config, environ, module_idx, any_failed, combined,
     request,
     exit_code, exit_reason, test_classes, selected, gathered, test_summary,
     reporterVars >>

\* test_instance = test_class(): outside the try block, so an exception leaves
\* run_test_class; gather keeps it as the task's result, the sequential loop
\* lets it leave run_tests
Instantiate(i) ==
  /\ CanStep(i)
  /\ tasks[i].pc = "new"
  /\ IF CtorRaises(tasks[i].cls)
     THEN /\ tasks' = [tasks EXCEPT ![i].pc = "done", ![i].outcome = "exception"]
          /\ mpc' = IF UseParallel THEN mpc ELSE "raised"
     ELSE /\ tasks' = [tasks EXCEPT ![i].pc = "setup"]
          /\ mpc' = mpc
  /\ UNCHANGED << runUnchanged, all_results >>

\* setup (when the instance has one), then the list of test_ methods
Setup(i) ==
  /\ CanStep(i)
  /\ tasks[i].pc = "setup"
  /\ \E o \in SetupChoices(tasks[i].cls), n \in NumMethodsChoices(tasks[i].cls) :
       LET t  == tasks[i]
           to == AfterSetup(o, n)
           t1 == [t EXCEPT !.setup_raised = (o = "raise"),
                           !.inflight = Returned(t.inflight),
                           !.n = IF o = "raise" THEN 0 ELSE n,
                           !.pc = to]
           t2 == IF to = "done" THEN Finish(t1) ELSE t1
       IN /\ tasks' = [tasks EXCEPT ![i] = t2]
          /\ all_results' = IF to = "done" THEN StoreSequential(t2)
                            ELSE all_results
  /\ UNCHANGED << runUnchanged, mpc >>

\* one iteration of the method loop
Method(i) ==
  /\ CanStep(i)
  /\ tasks[i].pc = "loop"
  /\ \E b \in BehaviourChoices(tasks[i].cls, tasks[i].idx) :
       LET t == tasks[i]
       IN tasks' = [tasks EXCEPT ![i] =
            [t EXCEPT !.results = InvokeMethod(t.results, t.idx, b),
                      !.inflight = Returned(t.inflight),
                      !.invoked = t.invoked + 1,
                      !.raised  = t.raised + (IF MethodRaises(b) THEN 1 ELSE 0),
                      !.idx     = t.idx + 1,
                      !.pc      = AfterMethod(t.idx, t.n, b)]]
  /\ UNCHANGED << runUnchanged, mpc, all_results >>

\* cleanup (when the instance has one; an exception is printed by the outer
\* except), then the summary and the return
Cleanup(i) ==
  /\ CanStep(i)
  /\ tasks[i].pc = "cleanup"
  /\ \E o \in CleanupChoices(tasks[i].cls) :
       LET t  == tasks[i]
           t1 == Finish([t EXCEPT !.cleanups =
                           t.cleanups + (IF HasCleanup(t.cls) THEN 1 ELSE 0),
                         !.inflight = Returned(t.inflight),
                         !.results = AfterCleanup(t.results, o)])
       IN /\ tasks' = [tasks EXCEPT ![i] = t1]
          /\ all_results' = StoreSequential(t1)
  /\ UNCHANGED << runUnchanged, mpc >>

\* gather without return_exceptions: the first exception ends the wait
GatherReady_FirstException ==
  \/ \A i \in DOMAIN tasks : tasks[i].pc = "done"
  \/ \E i \in DOMAIN tasks : tasks[i].outcome = "exception"

\* asyncio.gather(*tasks, return_exceptions=True) returns (and the sequential
\* loop ends) when every drive has ended, with a summary or with an exception
GatherReady == \A i \in DOMAIN tasks : tasks[i].pc = "done"

\* a Runner that calls the Reporter whatever the configuration
ReporterEnabled_Always(cfg) == TRUE

\* `if self.config.generate_reports:`
ReporterEnabled(cfg) == cfg.generate_reports

\* every drive has returned: collect gather's results, build the Run Summary,
\* hand it to the Reporter when reports are enabled, return it
RunTestsFinish ==
  /\ mpc = "running"
  /\ GatherReady
  /\ gathered' = IF UseParallel
                 THEN [i \in DOMAIN tasks |->
                         [cls |-> tasks[i].cls, outcome |-> tasks[i].outcome,
                          summary |-> tasks[i].summary]]
                 ELSE <<>>
  /\ all_results' = IF UseParallel THEN Collect(gathered', <<>>) ELSE all_results
  /\ test_summary' = _generate_test_summary(all_results')
  /\ IF ReporterEnabled(config)
     THEN \E d \in (IF reports = 0 THEN {0} ELSE Elapsed) :
            /\ clock' = clock + d
            /\ reports' = reports + 1
            /\ report_dir' = generate_report(report_dir, reports', clock')
            /\ report_log' = Append(report_log,
                                    [timestamp |-> strftime(clock'),
                                     files |-> WrittenBy(report_dir', reports')])
            /\ last_report' = ReportData(reports', test_summary', all_results')
     ELSE UNCHANGED reporterVars
  /\ mpc' = "returned"
  /\ UNCHANGED << envVars, prev, args, config, environ, module_idx,
                  any_failed, combined, request,
                  exit_code, exit_reason, test_classes, selected, tasks >>

\* a module loop that ignores --fail-fast
BreakSequence_Never(failed, fail_fast) == FALSE

\* `if summary.get("status") == "failed": ... if args.fail_fast: break`
BreakSequence(failed, fail_fast) == failed /\ fail_fast

\* `sys.exit(0 if overall["ok"] else 1)` with overall["ok"] = not any_failed
SequenceExitCode(failed_any) == IF failed_any THEN 1 ELSE 0

\* main after run_tests returned: exit, or write the module's JSON file and
\* go on with the next module
MainAfterRun ==
  /\ mpc = "returned"
  /\ IF args.module_sequence
     THEN LET failed == test_summary.status = "failed"
              af     == any_failed \/ failed
              stop   == BreakSequence(failed, args.fail_fast)
                        \/ module_idx = Len(MODULES_ORDER)
          IN /\ any_failed' = af
             /\ combined' = Store(combined, MODULES_ORDER[module_idx],
                                  test_summary.status)
             /\ report_dir' = WriteFile(report_dir,
                                        module_file(MODULES_ORDER[module_idx]),
                                        NoCall)
             /\ IF stop
                THEN /\ exit_code' = SequenceExitCode(af)
                     /\ exit_reason' = "returned"
                     /\ mpc' = "exited"
                     /\ module_idx' = module_idx
                ELSE /\ exit_code' = exit_code
                     /\ exit_reason' = exit_reason
                     /\ mpc' = "call"
                     /\ module_idx' = module_idx + 1
     ELSE /\ exit_code' = ExitCodeFor(test_summary)
          /\ exit_reason' = "returned"
          /\ mpc' = "exited"
          /\ UNCHANGED << module_idx, any_failed, combined, report_dir >>
  /\ request' = request
  /\ UNCHANGED << envVars, prev, args, config, environ, test_classes,
                  selected, tasks,
                  gathered, all_results, test_summary, reports, clock,
                  report_log, last_report >>

\* main's `except Exception`: an exception that left run_tests
MainExcept ==
  /\ mpc = "raised"
  /\ exit_code' = 1
  /\ exit_reason' = "exception"
  /\ mpc' = "exited"
  /\ UNCHANGED << envVars, prev, args, config, environ, module_idx,
                  any_failed, combined, request,
                  test_classes, selected, tasks, gathered, all_results,
                  test_summary, reporterVars >>

\* main's exit code for `except KeyboardInterrupt`
ExitCodeOnInterrupt == 130

\* the user interrupts the run while an awaited suite operation is in flight:
\* KeyboardInterrupt is no Exception, nothing in the Runner catches it, and
\* the process ends with the suites, their results and the Runner
Interrupt ==
  /\ mpc = "running"
  /\ \E i \in DOMAIN tasks : tasks[i].pc \in {"setup", "loop", "cleanup"}
  /\ exit_code' = ExitCodeOnInterrupt
  /\ exit_reason' = "interrupt"
  /\ mpc' = "exited"
  /\ test_classes' = <<>>
  /\ selected' = <<>>
  /\ tasks' = <<>>
  /\ all_results' = <<>>
  /\ UNCHANGED << envVars, prev, args, config, environ, module_idx,
                  any_failed, combined, request,
                  gathered, test_summary, reporterVars >>

\* the steps of the process after main has read its command line
RunSteps ==
  \/ RunTestsStart
  \/ \E i \in DOMAIN tasks : Instantiate(i)
  \/ \E i \in DOMAIN tasks : Setup(i)
  \/ \E i \in DOMAIN tasks : Method(i)
  \/ \E i \in DOMAIN tasks : Cleanup(i)
  \/ RunTestsFinish
  \/ MainAfterRun
  \/ MainExcept
  \/ Interrupt

Next == Main \/ RunSteps

Spec == Init /\ [][Next]_vars


(***************************************************************************)
(* Mode comparison: deterministic suites (every class has a fixed script), *)
(* a command line without --module-sequence, and after the process has     *)
(* ended the same command is run again in a new process with              *)
(* parallel_tests switched.                                                *)
(***************************************************************************)
DefaultScript ==
  [fixed |-> TRUE, setup |-> "ok", beh |-> [k \in 1..MaxMethods |-> "pass"],
   cleanup |-> "ok"]

InitModes ==
  /\ broken \in SUBSET TestFiles
  /\ script \in { sc \in [ClassNames -> FixedScripts] :
                    sc["APITest"] = DefaultScript }
  /\ InitProcess

Rerun ==
  /\ mpc = "exited"
  /\ prev.kind = "none"
  /\ exit_reason /= "interrupt"
  /\ ~args.module_sequence
  /\ prev' = [ kind     |-> IF exit_reason = "returned" THEN "summary"
                            ELSE "raised",
               parallel |-> config.parallel_tests,
               summary  |-> test_summary ]
  /\ config' = [config EXCEPT !.parallel_tests = ~config.parallel_tests]
  /\ environ' = [environ EXCEPT !.PARALLEL_TESTS =
                   IF config'.parallel_tests THEN "true" ELSE "false"]
  /\ mpc' = "call"
  /\ exit_code' = -1
  /\ exit_reason' = "none"
  /\ test_classes' = <<>>
  /\ selected' = <<>>
  /\ tasks' = <<>>
  /\ gathered' = <<>>
  /\ all_results' = <<>>
  /\ test_summary' = NoRunSummary
  /\ UNCHANGED << envVars, args, module_idx, any_failed, combined, request,
                  reporterVars >>

\* main started without --module-sequence
MainSingle == Main /\ ~args'.module_sequence

NextModes == MainSingle \/ RunSteps \/ Rerun

SpecModes == InitModes /\ [][NextModes]_vars


(***************************************************************************)
(* Operations in flight: the call of a suite operation (setup, a test      *)
(* method, cleanup) and its return are separate steps, so that operations  *)
(* of different drives overlap in parallel mode.  Every suite passes.      *)
(***************************************************************************)
InitOps ==
  /\ broken \in SUBSET TestFiles
  /\ script = [c \in ClassNames |-> DefaultScript]
  /\ InitProcess

\* the suite operations the Runner awaits
Operations == {"setup", "loop", "cleanup"}

\* a Runner that starts the next operation without awaiting the previous one
MayCall_NoAwait(k) == k < 2

\* `await`: the drive calls its next operation only when none is in flight
MayCall(k) == k = 0

\* the drive calls the operation it has reached
CallOp(i) ==
  /\ CanStep(i)
  /\ tasks[i].pc \in Operations
  /\ MayCall(tasks[i].inflight)
  /\ tasks' = [tasks EXCEPT ![i].inflight = @ + 1]
  /\ UNCHANGED << runUnchanged, mpc, all_results >>

\* the operation in flight returns or raises
ReturnOp(i) ==
  /\ i \in DOMAIN tasks
  /\ tasks[i].inflight > 0
  /\ Setup(i) \/ Method(i) \/ Cleanup(i)

NextOps ==
  \/ Main
  \/ RunTestsStart
  \/ \E i \in DOMAIN tasks : Instantiate(i)
  \/ \E i \in DOMAIN tasks : CallOp(i)
  \/ \E i \in DOMAIN tasks : ReturnOp(i)
  \/ RunTestsFinish
  \/ MainAfterRun
  \/ MainExcept
  \/ Interrupt

SpecOps == InitOps /\ [][NextOps]_vars


(***************************************************************************)
(* APITest.make_request: the retry loop around one HTTP request.           *)
(***************************************************************************)
\* largest value of API_RETRY_COUNT tried
MaxRetryCount == 3

\* what an attempt can raise inside the try block: the request itself, or
\* reading the body of the response
RequestExceptions == {"ClientError", "TimeoutError", "ContentTypeError"}

\* the main process has not started: make_request is followed on its own
InitRequest ==
  /\ broken = {}
  /\ script = [c \in ClassNames |-> DefaultScript]
  /\ InitProcess

\* a test method calls make_request; config.api.retry_count is
\* int(os.getenv("API_RETRY_COUNT", "3")) and the session may be open already
MakeRequest ==
  /\ request.pc = "none"
  /\ \E rc \in 0..MaxRetryCount, open \in BOOLEAN :
       request' = [NoRequest EXCEPT !.pc = "session", !.session = open,
                                    !.retry_count = rc]
  /\ UNCHANGED runnerVars

\* `if not self.session: await self.setup_session()`
EnsureSession ==
  /\ request.pc = "session"
  /\ request' = [request EXCEPT !.session = TRUE, !.pc = "for"]
  /\ UNCHANGED runnerVars

\* `for attempt in range(retry_count)`: the next iteration, or the statement
\* after the loop, `raise Exception("Max retries exceeded")`
ForAttempt ==
  /\ request.pc = "for"
  /\ IF request.attempt < request.retry_count
     THEN request' = [request EXCEPT !.pc = "try"]
     ELSE request' = [request EXCEPT
                        !.pc = "raised",
                        !.result = [kind |-> "exception",
                                    exc |-> "Max retries exceeded",
                                    attempt |-> 0]]
  /\ UNCHANGED runnerVars

\* a retry loop that never takes an attempt for the last one
IsLastAttempt_Never(attempt, retry_count) == FALSE

\* `if attempt == self.config.api.retry_count - 1`
IsLastAttempt(attempt, retry_count) == attempt = retry_count - 1

\* the try block of one iteration: the request is sent; `return
\* response_data`, or the except clause: `raise e` on the last attempt,
\* `await asyncio.sleep(1)` otherwise.  Attempts are numbered from 1 in log
\* and result (attempt + 1 of the code's 0-based loop variable).
TryRequest ==
  /\ request.pc = "try"
  /\ \E outcome \in {"response"} \cup RequestExceptions :
       LET number == request.attempt + 1
           sent   == [request EXCEPT !.sent = @ + 1,
                                     !.log = Append(@, outcome)]
       IN IF outcome = "response"
          THEN request' = [sent EXCEPT
                             !.pc = "returned",
                             !.result = [kind |-> "response", exc |-> None,
                                         attempt |-> number]]
          ELSE IF IsLastAttempt(request.attempt, request.retry_count)
          THEN request' = [sent EXCEPT
                             !.pc = "raised",
                             !.result = [kind |-> "exception",
                                         exc |-> outcome,
                                         attempt |-> number]]
          ELSE request' = [sent EXCEPT !.pc = "sleep"]
  /\ UNCHANGED runnerVars

\* asyncio.sleep(1) returns and the loop goes on with the next attempt
SleepDone ==
  /\ request.pc = "sleep"
  /\ request' = [request EXCEPT !.attempt = @ + 1, !.pc = "for"]
  /\ UNCHANGED runnerVars

NextRequest ==
  \/ MakeRequest
  \/ EnsureSession
  \/ ForAttempt
  \/ TryRequest
  \/ SleepDone

\* the event loop resumes the coroutine whenever the awaited request (bounded
\* by ClientTimeout) or sleep has completed
SpecRequest ==
  InitRequest /\ [][NextRequest]_vars /\ WF_vars(NextRequest)


(***************************************************************************)
(* Properties.                                                             *)
(***************************************************************************)
\* the drives of the current run that returned a Suite Summary
Driven == {i \in DOMAIN tasks : tasks[i].outcome = "summary"}

\* the sum of one count over a set of drives
SumPassed(I)  == SumFun([i \in I |-> tasks[i].summary.passed])
SumFailed(I)  == SumFun([i \in I |-> tasks[i].summary.failed])
SumSkipped(I) == SumFun([i \in I |-> tasks[i].summary.skipped])
SumTotal(I)   == SumFun([i \in I |-> tasks[i].summary.total_tests])

\* C1: a suite with N test methods of which M raise: all N are invoked and
\* the summary reports total_tests = N, passed = N - M, failed = M.
C1_CountsPerMethod ==
  \A i \in DOMAIN tasks :
    (tasks[i].outcome = "summary" /\ ~tasks[i].setup_raised) =>
      /\ tasks[i].invoked = tasks[i].n
      /\ tasks[i].summary.total_tests = tasks[i].n
      /\ tasks[i].summary.passed = tasks[i].n - tasks[i].raised
      /\ tasks[i].summary.failed = tasks[i].raised

\* C2: run_tests never raises because of a suite-level or method-level
\* failure (instantiation, setup, test method, cleanup), in either mode.
C2_RunTestsNeverRaises == mpc /= "raised"

\* C3: when setup raises, no test method of the suite is invoked and its
\* summary has total_tests = 0, passed = 0, failed = 0.
C3_SetupFailureRunsNoMethod ==
  \A i \in DOMAIN tasks :
    tasks[i].setup_raised =>
      /\ tasks[i].invoked = 0
      /\ tasks[i].results = <<>>
      /\ tasks[i].outcome = "summary"
      /\ tasks[i].summary.total_tests = 0
      /\ tasks[i].summary.passed = 0
      /\ tasks[i].summary.failed = 0

C3_Witness ==
  \E i, j \in DOMAIN tasks :
    /\ tasks[i].setup_raised /\ tasks[i].pc = "done"
    /\ tasks[j].pc = "done" /\ tasks[j].invoked = MaxMethods

\* C4: when a suite's setup raises, the Run Summary has status "failed", and
\* its counts are those of the other suites.
C4_SetupFailureFailsRun ==
  (test_summary.kind = "summary" /\ \E i \in DOMAIN tasks : tasks[i].setup_raised)
  => LET others == {i \in Driven : ~tasks[i].setup_raised}
     IN /\ test_summary.status = "failed"
        /\ test_summary.total_tests = SumTotal(others)
        /\ test_summary.passed = SumPassed(others)
        /\ test_summary.failed = SumFailed(others)
        /\ test_summary.skipped = SumSkipped(others)

\* C5: cleanup is attempted exactly once for every suite instance before
\* run_test_class returns, also when setup or a test method raised.
C5_CleanupOnce ==
  \A i \in DOMAIN tasks :
    tasks[i].outcome = "summary" => tasks[i].cleanups = 1

\* C6: every invocation of a test method adds exactly one Result Record: the
\* result list holds one record per invoked method, also when the method
\* raises or logs a result itself.
C6_OneRecordPerInvocation ==
  \A i \in DOMAIN tasks :
    /\ Len(tasks[i].results) = tasks[i].invoked
    /\ \A k \in 1..tasks[i].invoked :
         Cardinality({r \in DOMAIN tasks[i].results :
                        tasks[i].results[r].test_name = k}) = 1

C8_ModesAgree ==
  (prev.kind /= "none" /\ mpc = "exited" /\ exit_reason /= "interrupt") =>
    /\ prev.kind = "summary"
    /\ exit_reason = "returned"
    /\ test_summary.total_tests = prev.summary.total_tests
    /\ test_summary.passed = prev.summary.passed
    /\ test_summary.failed = prev.summary.failed
    /\ test_summary.skipped = prev.summary.skipped

\* C9: the Run Summary's counts are the sums over all suites driven in the
\* run, total_suites is the number of suites driven, and status is "failed"
\* exactly when a driven suite reports failed > 0.
C9_RunSummarySums ==
  test_summary.kind = "summary" =>
    /\ test_summary.total_tests = SumTotal(Driven)
    /\ test_summary.passed = SumPassed(Driven)
    /\ test_summary.failed = SumFailed(Driven)
    /\ test_summary.skipped = SumSkipped(Driven)
    /\ test_summary.total_suites = Cardinality(Driven)
    /\ (test_summary.status = "failed") <=>
         (\E i \in Driven : tasks[i].summary.failed > 0)

\* C10: after a single run the process exits with 0 exactly when the Run
\* Summary's status is "passed", with 1 when it is "failed", and with 130 when
\* the user interrupted the run.
C10_ExitCode ==
  (mpc = "exited" /\ ~args.module_sequence) =>
    /\ (exit_code = 0) <=> (test_summary.status = "passed")
    /\ test_summary.status = "failed" => exit_code = 1
    /\ exit_reason = "interrupt" => exit_code = 130

C10_Witness ==
  /\ mpc = "exited" /\ ~args.module_sequence
  /\ test_summary.status = "failed"
  /\ exit_code = 1

\* TestResult.error is a non-empty string
HasError(r) == r.error /= None /\ r.error /= ""

\* C11: in every Suite Summary of a driven suite, a Result Record has a
\* non-empty error exactly when its status is "failed".
C11_ErrorIffFailed ==
  \A i \in DOMAIN tasks :
    tasks[i].outcome = "summary" =>
      \A k \in DOMAIN tasks[i].summary.results :
        HasError(tasks[i].summary.results[k]) <=>
          tasks[i].summary.results[k].status = "failed"

RECURSIVE MethodLoop(_, _, _)
\* the records the method loop leaves for the behaviours beh[k..]
MethodLoop(results, beh, k) ==
  IF k > Len(beh) THEN results
  ELSE MethodLoop(InvokeMethod(results, k, beh[k]), beh, k + 1)

\* the drives of deterministic suites whose cleanup raised after the method
\* loop had run
CleanupRaised ==
  {i \in DOMAIN tasks :
     /\ tasks[i].outcome = "summary"
     /\ tasks[i].cleanups = 1
     /\ script[tasks[i].cls].fixed
     /\ script[tasks[i].cls].cleanup = "raise"}

\* C12: when cleanup raises after the test methods ran, run_test_class still
\* returns a Suite Summary, and its records and counts are exactly those the
\* test methods established.
C12_CleanupErrorKeepsResults ==
  \A i \in CleanupRaised :
    /\ tasks[i].summary.results =
         MethodLoop(<<>>, script[tasks[i].cls].beh, 1)
    /\ tasks[i].summary =
         get_test_summary(tasks[i].cls,
                          MethodLoop(<<>>, script[tasks[i].cls].beh, 1))
    /\ tasks[i].summary.total_tests = MaxMethods
    /\ tasks[i].summary.failed = tasks[i].raised
    /\ tasks[i].summary.passed = MaxMethods - tasks[i].raised

C12_Witness ==
  \E i \in CleanupRaised :
    /\ tasks[i].invoked = MaxMethods
    /\ tasks[i].raised = 1
    /\ mpc = "returned"
    /\ all_results[tasks[i].cls].total_tests = MaxMethods

\* the suite class a test file defines itself (its `class Test...(APITest)`)
DefinedClasses(f) ==
  IF f = "test_agents" THEN {"TestAgents"} ELSE {"TestPatterns"}

\* the Suite Contract type and the framework's helper base classes
FrameworkClasses == {"BaseTest", "APITest", "WorkflowTest"}

\* run_tests holds the list discover_tests returned
Discovered == mpc \in {"running", "returned", "raised"}

\* C13: when some test files fail to load, discover_tests still returns
\* exactly the suites defined by the files that loaded, each suite type once,
\* and none from the broken files.
C13_DiscoveryTolerant ==
  Discovered =>
    /\ {test_classes[k] : k \in DOMAIN test_classes} =
         UNION {DefinedClasses(f) : f \in TestFiles \ broken}
    /\ \A k, l \in DOMAIN test_classes :
         test_classes[k] = test_classes[l] => k = l

\* C14: discover_tests never returns the Suite Contract type itself nor a
\* framework base class that a test module merely imported.
C14_OnlyRunnableSuites ==
  Discovered =>
    \A k \in DOMAIN test_classes : test_classes[k] \notin FrameworkClasses

\* the suite classes discover_tests returned to the current run_tests call
DiscoveredClasses == {test_classes[k] : k \in DOMAIN test_classes}

\* C15: with a filter, a discovered suite is instantiated and driven exactly
\* when the filter is a case-insensitive substring of its type name; a suite
\* that does not match is never instantiated and adds nothing to the Run
\* Summary.
C15_FilterSelects ==
  (mpc = "returned" /\ CurrentFilter /= NoFilter) =>
    \A c \in DiscoveredClasses :
      /\ (\E i \in DOMAIN tasks :
            tasks[i].cls = c /\ tasks[i].outcome = "summary")
           <=> FilterMatches(CurrentFilter, c)
      /\ ~FilterMatches(CurrentFilter, c) =>
           /\ \A i \in DOMAIN tasks : tasks[i].cls /= c
           /\ c \notin DOMAIN all_results

\* C16: when run_tests is given a level, only suites whose declared level
\* equals that level are driven.
C16_LevelSelects ==
  args.level /= NoLevel =>
    \A i \in DOMAIN tasks :
      tasks[i].invoked > 0 => DeclaredLevel(tasks[i].cls) = args.level

\* the method names of the records of drive i, in the order of the list
RecordNames(i) ==
  [k \in DOMAIN tasks[i].summary.results |->
     test_methods(tasks[i].cls, tasks[i].n)[tasks[i].summary.results[k].test_name]]

\* C17: within one suite the test methods are invoked in the order in which
\* the suite declares them, and the Suite Summary's results list is in that
\* order.
C17_DeclarationOrder ==
  \A i \in DOMAIN tasks :
    tasks[i].outcome = "summary" =>
      \A k, l \in DOMAIN RecordNames(i) :
        k < l => DeclPos(tasks[i].cls, RecordNames(i)[k])
                   <= DeclPos(tasks[i].cls, RecordNames(i)[l])

\* C18: every generate_report call writes the JSON report and the JUnit XML
\* report, and writes the HTML report exactly when report_format is "html".
C18_ReportFormats ==
  /\ Len(report_log) = reports
  /\ \A c \in DOMAIN report_log :
       LET ts == report_log[c].timestamp
       IN /\ json_file(ts) \in report_log[c].files
          /\ xml_file(ts) \in report_log[c].files
          /\ html_file(ts) \in report_log[c].files
               <=> config.report_format = "html"
          /\ report_log[c].files \subseteq
               {json_file(ts), xml_file(ts), html_file(ts)}
          /\ report_log[c].files \subseteq DOMAIN report_dir

C18_Witness ==
  /\ reports >= 2
  /\ config.report_format = "json"
  /\ \A c \in DOMAIN report_log :
       html_file(report_log[c].timestamp) \notin DOMAIN report_dir
  /\ \E c \in DOMAIN report_log :
       report_dir[json_file(report_log[c].timestamp)] = c

RECURSIVE ParseInt(_)
\* the number a string of decimal digits denotes
ParseInt(ds) ==
  IF ds = <<>> THEN 0
  ELSE 10 * ParseInt(SubSeq(ds, 1, Len(ds) - 1)) + ds[Len(ds)]

\* C19: for the same run, the tests, failures and skipped attributes of the
\* JUnit XML root equal summary.total_tests, summary.failed and
\* summary.skipped of the JSON report, and every testsuite element's tests,
\* failures and skipped equal that suite's counts in detailed_results.
C19_JUnitMatchesJson ==
  last_report.call /= NoCall =>
    LET xml  == last_report.junit
        data == last_report.json
    IN /\ ParseInt(xml.tests) = data.summary.total_tests
       /\ ParseInt(xml.failures) = data.summary.failed
       /\ ParseInt(xml.skipped) = data.summary.skipped
       /\ DOMAIN xml.testsuites = DOMAIN data.detailed_results
       /\ \A name \in DOMAIN data.detailed_results :
            /\ ParseInt(xml.testsuites[name].tests) =
                 data.detailed_results[name].total_tests
            /\ ParseInt(xml.testsuites[name].failures) =
                 data.detailed_results[name].failed
            /\ ParseInt(xml.testsuites[name].skipped) =
                 data.detailed_results[name].skipped

C19_Witness ==
  /\ last_report.call /= NoCall
  /\ last_report.json.summary = test_summary
  /\ Cardinality(DOMAIN last_report.json.detailed_results) = 2
  /\ \E name \in DOMAIN last_report.json.detailed_results :
       /\ last_report.json.detailed_results[name].failed > 0
       /\ last_report.json.detailed_results[name].skipped > 0
       /\ last_report.junit.testsuites[name].tests = <<3>>

\* C20: report files written by one generate_report call are never
\* overwritten by a later call: every file a call wrote is still the one that
\* call wrote, and no two calls wrote to the same name.
C20_NoOverwrite ==
  \A c \in DOMAIN report_log :
    /\ \A f \in report_log[c].files : report_dir[f] = c
    /\ \A e \in DOMAIN report_log :
         e /= c => report_log[c].files \cap report_log[e].files = {}

\* the step is a call of generate_report
ReporterInvoked == reports' /= reports

\* C21: within one run_tests call the Reporter is invoked at most once, only
\* when generate_reports is enabled and only after every selected suite's
\* drive has finished; a run interrupted while a suite operation is in flight
\* invokes no Reporter and writes no report file.
C21_ReporterOnceAfterDrives ==
  [][ /\ ReporterInvoked =>
           /\ reports' = reports + 1
           /\ config.generate_reports
           /\ mpc = "running" /\ mpc' = "returned"
           /\ \A i \in DOMAIN tasks : tasks[i].pc = "done"
           /\ \A i \in DOMAIN tasks :
                tasks[i].outcome = "summary" =>
                  tasks[i].setup_raised \/ tasks[i].cleanups = 1
      /\ (mpc' = "running" /\ mpc /= "running") => mpc = "call"
      /\ exit_reason' = "interrupt" =>
           /\ ~ReporterInvoked
           /\ report_dir' = report_dir
           /\ report_log' = report_log ]_vars

C21_Witness ==
  /\ config.generate_reports
  /\ exit_reason = "interrupt"
  /\ module_idx = 2
  /\ reports = 1
  /\ WrittenBy(report_dir, 1) = report_log[1].files

\* C22: the command-line overrides take effect for the run they are given
\* on: --parallel and --reports set parallel_tests and generate_reports in
\* the configuration the Runner reads.
C22_OverridesTakeEffect ==
  mpc /= "start" =>
    /\ args.parallel => config.parallel_tests
    /\ args.reports => config.generate_reports

\* C23: at most one operation (setup, a test method, cleanup) of a suite
\* instance is in flight at any time; operations of different suites may
\* interleave, and an operation is in flight only at the place of the drive
\* that awaits it.
C23_OneOperationInFlight ==
  \A i \in DOMAIN tasks :
    /\ tasks[i].inflight <= 1
    /\ tasks[i].inflight = 1 => tasks[i].pc \in Operations
    /\ tasks[i].inflight = 1 =>
         tasks[i].invoked = (IF tasks[i].pc = "loop" THEN tasks[i].idx - 1
                             ELSE IF tasks[i].pc = "cleanup" THEN tasks[i].n
                             ELSE 0)

C23_Witness ==
  /\ UseParallel
  /\ \E i, j \in DOMAIN tasks :
       /\ i /= j
       /\ tasks[i].inflight = 1 /\ tasks[i].pc = "loop" /\ tasks[i].invoked = 1
       /\ tasks[j].inflight = 1 /\ tasks[j].pc = "cleanup"

\* C24: in sequential mode the suites are driven in the order Discovery
\* returned them and without overlap: when a suite is instantiated or set up,
\* every earlier suite's drive, its cleanup included, has finished.
C24_SequentialOrder ==
  (mpc \in {"running", "returned", "raised"} /\ ~UseParallel) =>
    /\ selected = ApplyFilter(test_classes, CurrentFilter)
    /\ \A i \in DOMAIN tasks : tasks[i].cls = selected[i]
    /\ \A i, j \in DOMAIN tasks :
         (i < j /\ tasks[j].pc /= "new") =>
           /\ tasks[i].pc = "done"
           /\ tasks[i].inflight = 0
           /\ tasks[i].outcome = "summary"
           /\ tasks[i].setup_raised \/ tasks[i].cleanups = 1

C24_Witness ==
  /\ mpc = "running" /\ ~UseParallel
  /\ Len(tasks) = 2
  /\ tasks[1].cleanups = 1 /\ tasks[1].invoked = MaxMethods
  /\ tasks[2].pc = "loop" /\ tasks[2].invoked = 1

\* C25: each drive uses a new suite instance whose result list starts empty,
\* so under any interleaving a Suite Summary holds exactly the records its
\* own instance logged and none logged by another instance.
C25_OwnRecordsOnly ==
  \A i \in DOMAIN tasks :
    /\ tasks[i].pc \in {"new", "setup"} => tasks[i].results = <<>>
    /\ tasks[i].outcome = "summary" =>
         /\ tasks[i].summary.test_suite = tasks[i].cls
         /\ tasks[i].summary.results =
              (IF tasks[i].setup_raised THEN <<>>
               ELSE MethodLoop(<<>>, script[tasks[i].cls].beh, 1))

C25_Witness ==
  /\ UseParallel /\ mpc = "returned"
  /\ \E i, j \in DOMAIN tasks :
       /\ tasks[i].outcome = "summary" /\ tasks[j].outcome = "summary"
       /\ tasks[i].summary.failed = MaxMethods
       /\ tasks[j].summary.passed = MaxMethods

\* C26: the JUnit XML has exactly one testsuite element per suite in
\* detailed_results and exactly one testcase element per Result Record of
\* that suite; a testcase has a failure child exactly when the record's
\* status is "failed" and a skipped child exactly when it is "skipped".
C26_JUnitStructure ==
  last_report.call /= NoCall =>
    LET xml     == last_report.junit
        details == last_report.json.detailed_results
    IN /\ DOMAIN xml.testsuites = DOMAIN details
       /\ \A name \in DOMAIN details :
            LET cases   == xml.testsuites[name].testcases
                records == details[name].results
            IN /\ Len(cases) = Len(records)
               /\ \A k \in DOMAIN records :
                    /\ cases[k].name = records[k].test_name
                    /\ cases[k].child = "failure"
                         <=> records[k].status = "failed"
                    /\ cases[k].child = "skipped"
                         <=> records[k].status = "skipped"

C26_Witness ==
  /\ last_report.call /= NoCall
  /\ \E name \in DOMAIN last_report.junit.testsuites :
       LET cases == last_report.junit.testsuites[name].testcases
       IN /\ Len(cases) = 3
          /\ \E k \in DOMAIN cases : cases[k].child = "failure"
          /\ \E k \in DOMAIN cases : cases[k].child = "skipped"
          /\ \E k \in DOMAIN cases : cases[k].child = "none"

\* the number of modules whose run_tests call has been made
ModulesStarted == IF mpc = "call" THEN module_idx - 1 ELSE module_idx

\* the number of modules whose summary main has stored in combined
ModulesStored ==
  IF mpc = "exited" /\ exit_reason = "returned" THEN module_idx
  ELSE module_idx - 1

\* C27: under --module-sequence the modules are run one at a time in
\* MODULES_ORDER; under --fail-fast no module is run after the first one whose
\* Run Summary has status "failed"; and a sequence that is not interrupted
\* exits with 0 exactly when no module that was run reported "failed".
C27_ModuleSequence ==
  (args.module_sequence /\ mpc /= "start") =>
    /\ module_idx \in 1..Len(MODULES_ORDER)
    /\ DOMAIN combined = { MODULES_ORDER[k] : k \in 1..ModulesStored }
    /\ (mpc \in {"running", "returned"}) =>
         selected = ApplyLevel(ApplyFilter(test_classes,
                                           MODULES_ORDER[module_idx]),
                               args.level)
    /\ args.fail_fast =>
         \A k \in 1..ModulesStarted : \A j \in 1..(k - 1) :
           combined[MODULES_ORDER[j]] /= "failed"
    /\ (mpc = "exited" /\ exit_reason /= "interrupt") =>
         (exit_code = 0
            <=> \A m \in DOMAIN combined : combined[m] /= "failed")

C27_Witness ==
  /\ args.module_sequence
  /\ args.fail_fast
  /\ mpc = "exited"
  /\ exit_reason = "returned"
  /\ DOMAIN combined = {"dashboard", "agents"}
  /\ combined["agents"] = "failed"
  /\ exit_code = 1

\* C28: discover_tests is idempotent: every call over the unchanged test
\* directory returns the list a first call returns, so every run_tests call
\* of one TestRunner drives each matching suite once, as a first call does.
C28_DiscoverIdempotent ==
  (mpc \in {"running", "returned"}) =>
    /\ test_classes = discover_tests(<<>>)
    /\ selected = ApplyLevel(ApplyFilter(discover_tests(<<>>), CurrentFilter),
                             args.level)

\* the make_request call has ended
RequestEnded == request.pc \in {"returned", "raised"}

RequestWellFormed ==
  LET r == request
  IN /\ r.sent <= r.retry_count
     /\ Len(r.log) = r.sent
     /\ \A k \in 1..(Len(r.log) - 1) : r.log[k] /= "response"
     /\ r.pc = "returned" =>
          /\ r.sent >= 1
          /\ r.log[r.sent] = "response"
          /\ r.result = [kind |-> "response", exc |-> None,
                         attempt |-> r.sent]
     /\ (r.pc /= "returned" /\ r.sent >= 1) => r.log[r.sent] /= "response"
     /\ r.pc = "raised" =>
          /\ r.sent = r.retry_count
          /\ r.result.kind = "exception"
          /\ r.retry_count >= 1 =>
               /\ r.result.attempt = r.retry_count
               /\ r.result.exc = r.log[r.retry_count]

\* C29: make_request sends at most retry_count requests; it returns the
\* response of the first attempt that does not raise and makes no attempt
\* after it; when all retry_count attempts raise it raises the exception of
\* the last one; and every call ends with a response or an exception.
C29_MakeRequest ==
  /\ []RequestWellFormed
  /\ (request.pc /= "none") ~> RequestEnded

C29_Witness ==
  /\ request.pc = "returned"
  /\ request.retry_count = 3
  /\ request.log = <<"TimeoutError", "ClientError", "response">>

\* total_tests = passed + failed + skipped in a summary
CountsAddUp(summary) ==
  summary.total_tests = summary.passed + summary.failed + summary.skipped

\* C30: in every Suite Summary and in every Run Summary of a run,
\* total_tests = passed + failed + skipped, and a suite's results list is as
\* long as its total_tests.
C30_CountsAddUp ==
  /\ \A i \in DOMAIN tasks :
       tasks[i].outcome = "summary" =>
         /\ CountsAddUp(tasks[i].summary)
         /\ Len(tasks[i].summary.results) = tasks[i].summary.total_tests
  /\ \A name \in DOMAIN all_results :
       /\ CountsAddUp(all_results[name])
       /\ Len(all_results[name].results) = all_results[name].total_tests
  /\ test_summary.kind = "summary" => CountsAddUp(test_summary)

C30_Witness ==
  /\ test_summary.kind = "summary"
  /\ test_summary.total_tests = 3
  /\ test_summary.passed = 1
  /\ test_summary.failed = 1
  /\ test_summary.skipped = 1
  /\ \E name \in DOMAIN all_results : Len(all_results[name].results) = 3

====
